---- MODULE Spec2Model ----
(***************************************************************************)
(* Model of the face-avatar mesh pipeline of vitorhw/digitaltwin and of    *)
(* its voice server:                                                       *)
(*   backend/face_avatar/avatar/builder.py  (build_mesh_from_photo)        *)
(*   backend/unified_server.py, face_demo/server.py  (api_generate)        *)
(*   tts_server.py  (clone_voice, synthesize_speech, delete_voice)         *)
(*   backend/heygen.py  (generate_video)                                   *)
(*                                                                         *)
(* Numbers.  Landmark coordinates are float32 pixels in the code.  Here a  *)
(* coordinate is an integer number of grid steps and arithmetic is exact   *)
(* (rational); float rounding is not modelled.  Every predicate of the     *)
(* pipeline (centroid, straddle test, polar-angle order) is unchanged by a *)
(* positive rescaling of either axis, so the size of a grid step is free,  *)
(* except for the 1e-9 added to the denominator in _inside_polygon, which  *)
(* is an absolute amount of y.  The y grid step is taken to be the finest  *)
(* step float32 has for y in [1, 2) pixels, 2^-23 = 1.19e-7, which is      *)
(* EpsDen = 119 times 1e-9: the case where the guard weighs most.          *)
(* Indices are 0-based as in the code; a list is a TLA+ sequence, so list  *)
(* position p of the code is position p+1 here.                            *)
(***************************************************************************)
EXTENDS Integers, Sequences, FiniteSets, TLC

\* ------------------------------------------------------------------ bounds
\* Number of landmarks the provider returns per face (468 for MediaPipe).
NumLandmarks == 4
\* Landmark pixel coordinates range over 0..Grid on both axes.
Grid == 1
\* A varied topology table holds at most MaxEdges index pairs.
MaxEdges == 2
\* An uploaded photo has 1..MaxBytes bytes.
MaxBytes == 2
\* Point-in-polygon runs: y in 0..PolyGrid, x in 0..PolyGrid or at FarX (a
\* point on the far side of the image).
PolyGrid == 1
FarX == 256
\* Polygons of the point-in-polygon runs have up to MaxPoly vertices.
MaxPoly == 3
\* Normalizer runs: the image is 1..MaxSide pixels wide and high, landmark x
\* and y range over 0..MaxSide (so some lie outside a smaller image), z over
\* 0..MaxDepth, and a landmark array has up to MaxNormRows rows.
MaxSide == 2
MaxDepth == 2
MaxNormRows == 3
\* TTS server runs: up to MaxOps requests; a request text is made of up to
\* MaxRuns runs of characters, a run of letters being LongRun long (two such
\* runs exceed the chunk limit, one does not).
MaxOps == 3
MaxRuns == 4
LongRun == 130

\* One y grid step (2^-23 pixel) in units of the guard 1e-9 of builder.py:62.
EpsDen == 119

\* generate_video runs: poll_seconds ranges over -1..MaxPollSeconds and
\* timeout_seconds over -1..MaxTimeoutSeconds (both are plain ints of the
\* request body), and a status request takes 0..MaxLatency seconds.
MaxPollSeconds == 2
MaxTimeoutSeconds == 3
MaxLatency == 1

\* ------------------------------------------------------------ list helpers
Range(s) == {s[k] : k \in DOMAIN s}

\* Python's sorted() on a set of integers: the ascending list of its elements.
sorted(S) ==
  [p \in 1..Cardinality(S) |->
     CHOOSE v \in S : Cardinality({u \in S : u < v}) = p - 1]

\* ------------------------------------------------------- topology tables
\* Variant of _polygon_from_connections that collects the endpoints in a
\* list instead of a set: an index named by two edges appears twice.
PolygonFromConnectionsAsList(connections) ==
  LET below(v)  == Cardinality({c \in connections : c[1] < v})
                     + Cardinality({c \in connections : c[2] < v})
      upto(v)   == Cardinality({c \in connections : c[1] <= v})
                     + Cardinality({c \in connections : c[2] <= v})
      ends      == {c[1] : c \in connections} \cup {c[2] : c \in connections}
  IN  [p \in 1..(2 * Cardinality(connections)) |->
         CHOOSE v \in ends : below(v) < p /\ p <= upto(v)]

\* builder.py:45-51.  The set of indices named by any edge, ascending.
_polygon_from_connections(connections) ==
  sorted({c[1] : c \in connections} \cup {c[2] : c \in connections})

\* Variant of _verts_from_conns that leaves out `s.add(b)`.
VertsFromConnsFirstOnly(conns) == sorted({c[1] : c \in conns})

\* builder.py:114-119.  Same derivation for a feature table.
_verts_from_conns(conns) ==
  sorted({c[1] : c \in conns} \cup {c[2] : c \in conns})

\* ------------------------------------------------------- boundary polygon
\* Sum of the coordinates of a list of points (numerator of ndarray.mean).
RECURSIVE SumPts(_)
SumPts(pts) ==
  IF pts = <<>> THEN <<0, 0>>
  ELSE LET r == SumPts(Tail(pts))
       IN  <<pts[1][1] + r[1], pts[1][2] + r[2]>>

\* Rank of np.arctan2(dy, dx) in (-pi, pi]: 0 for (-pi,0), 1 for exactly 0
\* (this includes arctan2(0, 0) = 0), 2 for (0,pi), 3 for exactly pi.
AngleBand(d) ==
  IF d[2] < 0 THEN 0
  ELSE IF d[2] > 0 THEN 2
  ELSE IF d[1] >= 0 THEN 1 ELSE 3

\* arctan2 of direction a is strictly less than arctan2 of direction b.
AngleLess(a, b) ==
  \/ AngleBand(a) < AngleBand(b)
  \/ /\ AngleBand(a) = AngleBand(b)
     /\ AngleBand(a) \in {0, 2}
     /\ a[1] * b[2] - a[2] * b[1] > 0

\* Variant of the ordering that keeps the order of the index list (ascending
\* index) instead of sorting by angle.
SortByIndex(oval_xy) == oval_xy

\* builder.py:90-93.  oval_xy ordered by polar angle around its mean.  The
\* direction of point p is n*p - sum, i.e. n times (p - center).  np.argsort
\* sorts short arrays by insertion, so equal angles keep their list order.
SortByAngle(oval_xy) ==
  LET n    == Len(oval_xy)
      s    == SumPts(oval_xy)
      d(k) == <<n * oval_xy[k][1] - s[1], n * oval_xy[k][2] - s[2]>>
      before(j, k) == AngleLess(d(j), d(k)) \/ (~AngleLess(d(k), d(j)) /\ j < k)
      sort_idx == [p \in 1..n |->
                     CHOOSE k \in 1..n :
                       Cardinality({j \in 1..n : before(j, k)}) = p - 1]
  IN  [p \in 1..n |-> oval_xy[sort_idx[p]]]

\* ------------------------------------------------------- point in polygon
\* builder.py:62.  One edge (p1, p2) toggles `inside` for the point
\* (pt[1]/k, pt[2]/k).  With D = (y2 - y1 + 1e-9) in units of 1e-9, the
\* test  x < (x2-x1)*(y-y1)/(y2-y1+1e-9) + x1  is cross-multiplied by D; a
\* zero D is numpy's division by zero (inf or nan, no exception).
EdgeToggles(k, pt, p1, p2) ==
  LET D   == (p2[2] - p1[2]) * EpsDen + 1
      lhs == (pt[1] - k * p1[1]) * D
      rhs == (p2[1] - p1[1]) * (pt[2] - k * p1[2]) * EpsDen
  IN  /\ (k * p1[2] > pt[2]) # (k * p2[2] > pt[2])
      /\ IF D > 0 THEN lhs < rhs
         ELSE IF D < 0 THEN lhs > rhs
         ELSE rhs > 0

\* builder.py:54-64.  Ray casting: `inside` is toggled once per edge that
\* passes the test, the closing edge (last point to first) included.
InsideScaled(k, pt, poly_xy) ==
  LET n == Len(poly_xy)
  IN  Cardinality({i \in 1..n :
        EdgeToggles(k, pt, poly_xy[i], poly_xy[(i % n) + 1])}) % 2 = 1

_inside_polygon(pt, poly_xy) == InsideScaled(1, pt, poly_xy)

\* ------------------------------------------------------------ triangulator
\* scipy.spatial.Delaunay (builder.py:83-84) is a library call.  Its result is
\* modelled by the defining property of a Delaunay triangulation: the
\* simplices are non-degenerate triangles, counter-clockwise, whose
\* circumcircle holds no input point strictly inside, and no two of them
\* overlap.  Where that leaves a choice (cocircular or duplicate points) every
\* outcome is allowed.  Qhull raises QhullError when the input is flat.
Cross(a, b, c) == (b[1] - a[1]) * (c[2] - a[2]) - (b[2] - a[2]) * (c[1] - a[1])

SqNorm(a, d) == (a[1] - d[1]) * (a[1] - d[1]) + (a[2] - d[2]) * (a[2] - d[2])

\* d lies strictly inside the circle through the counter-clockwise a, b, c.
InCircle(a, b, c, d) ==
  LET ax == a[1] - d[1]   ay == a[2] - d[2]
      bx == b[1] - d[1]   by == b[2] - d[2]
      cx == c[1] - d[1]   cy == c[2] - d[2]
  IN  ax * (by * SqNorm(c, d) - cy * SqNorm(b, d))
        - ay * (bx * SqNorm(c, d) - cx * SqNorm(b, d))
        + SqNorm(a, d) * (bx * cy - by * cx) > 0

\* The candidate simplices of the points, each counter-clockwise with its
\* smallest index first.
Candidates(points2d) ==
  LET I == DOMAIN points2d
      ccw(i, j, k) == IF Cross(points2d[i], points2d[j], points2d[k]) > 0
                      THEN <<i, j, k>> ELSE <<i, k, j>>
  IN  {ccw(t[1], t[2], t[3]) : t \in
        {t \in I \X I \X I :
           /\ t[1] < t[2] /\ t[2] < t[3]
           /\ Cross(points2d[t[1]], points2d[t[2]], points2d[t[3]]) # 0
           /\ LET o == ccw(t[1], t[2], t[3])
              IN  \A d \in I : ~InCircle(points2d[o[1]], points2d[o[2]],
                                          points2d[o[3]], points2d[d])}}

\* Two counter-clockwise triangles have disjoint interiors: an edge of one
\* has the whole other triangle on or outside it.
Separated(points2d, s, t) ==
  \E e \in {<<1, 2>>, <<2, 3>>, <<3, 1>>} :
    \A v \in 1..3 :
      Cross(points2d[s[e[1]]], points2d[s[e[2]]], points2d[t[v]]) <= 0

Compatible(points2d, s, t) ==
  Separated(points2d, s, t) \/ Separated(points2d, t, s)

\* Faces as the (M,3) array `tri.simplices`, rows in ascending order.
FaceKey(t) == (t[1] * (NumLandmarks + 2) + t[2]) * (NumLandmarks + 2) + t[3]

FaceRows(S) ==
  [p \in 1..Cardinality(S) |->
     CHOOSE t \in S :
       Cardinality({u \in S : FaceKey(u) < FaceKey(t)}) = p - 1]

\* Every array Delaunay(points2d).simplices may be; empty set: QhullError.
Delaunay(points2d) ==
  LET C == Candidates(points2d)
      ok(S) == /\ \A s \in S : \A t \in S : s = t \/ Compatible(points2d, s, t)
               /\ \A u \in C \ S : \E s \in S : ~Compatible(points2d, s, u)
  IN  IF C = {} THEN {}
      ELSE IF ok(C) THEN {FaceRows(C)}
      ELSE {FaceRows(S) : S \in {S \in SUBSET C : S # {} /\ ok(S)}}

\* --------------------------------------------------------- region filter
\* Variant of the region filter that also reverses the winding of the rows it
\* keeps (faces[mask_inside][:, ::-1]).
RegionFilterFlipped(faces, points2d, oval_xy_sorted) ==
  LET keep(t) ==
        InsideScaled(3, SumPts(<<points2d[t[1]], points2d[t[2]], points2d[t[3]]>>),
                     oval_xy_sorted)
      kept == SelectSeq(faces, keep)
  IN  [p \in DOMAIN kept |-> <<kept[p][3], kept[p][2], kept[p][1]>>]

\* Variant of the region filter that tests the first vertex of a row instead
\* of the mean of its three vertices.
RegionFilterFirstVertex(faces, points2d, oval_xy_sorted) ==
  LET keep(t) == InsideScaled(1, points2d[t[1]], oval_xy_sorted)
  IN  SelectSeq(faces, keep)

\* Variant of the region filter whose loop stops at the first row it drops.
RegionFilterUntilOutside(faces, points2d, oval_xy_sorted) ==
  LET keep(t) ==
        InsideScaled(3, SumPts(<<points2d[t[1]], points2d[t[2]], points2d[t[3]]>>),
                     oval_xy_sorted)
      stop == {p \in DOMAIN faces : ~keep(faces[p])}
  IN  SubSeq(faces, 1, IF stop = {} THEN Len(faces)
                       ELSE (CHOOSE p \in stop : \A p2 \in stop : p <= p2) - 1)

\* builder.py:95-97.  Row t of `faces` is kept when the mean of its three
\* vertices is inside the polygon; the mean is passed as the vertex sum with
\* denominator 3.
RegionFilter(faces, points2d, oval_xy_sorted) ==
  LET keep(t) ==
        InsideScaled(3, SumPts(<<points2d[t[1]], points2d[t[2]], points2d[t[3]]>>),
                     oval_xy_sorted)
  IN  SelectSeq(faces, keep)

\* ------------------------------------------------- build_mesh_from_photo
\* _extract_landmarks (builder.py:33-42) returns None or an array with one
\* row per landmark; None is written as the array without rows, which the
\* provider never returns.
None == <<>>

\* Variant of the check at builder.py:79 that never fires.
DetectionNeverFails(xyz) == FALSE

\* builder.py:79.  The provider found no face.
DetectionFailed(xyz) == xyz = None

NoMesh(error, steps) ==
  [ok |-> FALSE, error |-> error, steps |-> steps, n |-> 0, raw |-> <<>>,
   faces |-> <<>>, oval_indices |-> <<>>, oval_xy_sorted |-> <<>>,
   feature_indices |-> [lips |-> <<>>, left_eye |-> <<>>, right_eye |-> <<>>]]

\* builder.py:86-143 for one outcome `raw` of the triangulator.
MeshFrom(xyz, raw, topo) ==
  LET points2d       == xyz
      oval_indices   == _polygon_from_connections(topo.oval)
      oval_xy        == [p \in DOMAIN oval_indices |-> points2d[oval_indices[p]]]
      oval_xy_sorted == SortByAngle(oval_xy)
  IN  [ok |-> TRUE, error |-> "", n |-> Cardinality(DOMAIN xyz), raw |-> raw,
       steps |-> <<"load", "detect", "triangulate", "boundary", "filter",
                   "normalize", "uv", "features", "assemble">>,
       faces |-> RegionFilter(raw, points2d, oval_xy_sorted),
       oval_indices |-> oval_indices,
       oval_xy_sorted |-> oval_xy_sorted,
       feature_indices |-> [lips      |-> _verts_from_conns(topo.lips),
                            left_eye  |-> _verts_from_conns(topo.left_eye),
                            right_eye |-> _verts_from_conns(topo.right_eye)]]

\* builder.py:67-143.  Every outcome of the call: the returned dict, or the
\* exception that leaves it (RuntimeError at line 80; TypeError when None is
\* sliced at line 82; QhullError at line 83; IndexError at line 88, where
\* numpy rejects an index past the last row).
build_mesh_from_photo(xyz, topo) ==
  IF DetectionFailed(xyz)
    THEN {NoMesh("NoFaceDetected", <<"load", "detect">>)}
  ELSE IF xyz = None
    THEN {NoMesh("TypeError", <<"load", "detect", "triangulate">>)}
  ELSE IF Delaunay(xyz) = {}
    THEN {NoMesh("QhullError", <<"load", "detect", "triangulate">>)}
  ELSE IF \E i \in Range(_polygon_from_connections(topo.oval)) : i \notin DOMAIN xyz
    THEN {NoMesh("IndexError", <<"load", "detect", "triangulate", "boundary">>)}
  ELSE {MeshFrom(xyz, raw, topo) : raw \in Delaunay(xyz)}

\* ------------------------------------------------ normalizer and UVs
\* A numpy array of the normalizer, with exact entries: entry (i, c) is
\* rows[i][c] / den[c].  The landmark array has den = <<1, 1, 1>>.
RawCell(rows) == [den |-> <<1, 1, 1>>, rows |-> rows]

NoArray == [den |-> <<>>, rows |-> <<>>]

\* Variant of ndarray.copy() that hands back the array itself (`verts = xyz`).
NoCopy(source, fresh) == source

\* ndarray.copy() (builder.py:100, 134): the object the new name is bound to
\* is a fresh one; its content is that of `source`.
copy(source, fresh) == fresh

\* builder.py:82.  xyz[:, :2].copy(): the first two columns, copied.
Points2d(c) ==
  [den  |-> <<c.den[1], c.den[2]>>,
   rows |-> [i \in DOMAIN c.rows |-> <<c.rows[i][1], c.rows[i][2]>>]]

\* Variant of the vertical flip that negates y instead (y' = -y).
FlipNegate(c, h) ==
  [c EXCEPT !.rows = [i \in DOMAIN c.rows |-> [c.rows[i] EXCEPT ![2] = 0 - @]]]

\* builder.py:102.  verts[:, 1] = h - verts[:, 1].
Flip(c, h) ==
  [c EXCEPT !.rows =
     [i \in DOMAIN c.rows |-> [c.rows[i] EXCEPT ![2] = h * c.den[2] - @]]]

\* builder.py:104.  Twice np.median of column z, as a numerator over den[3]:
\* the middle value of the ascending arrangement, or the mean of the two
\* middle values when the count is even.
Median2(c) ==
  LET n == Len(c.rows)
      z(i) == c.rows[i][3]
      asc == [p \in 1..n |->
                CHOOSE v \in {z(i) : i \in 1..n} :
                  /\ Cardinality({j \in 1..n : z(j) < v}) < p
                  /\ p <= Cardinality({j \in 1..n : z(j) <= v})]
  IN  IF n % 2 = 1 THEN 2 * asc[(n + 1) \div 2]
      ELSE asc[n \div 2] + asc[(n \div 2) + 1]

\* Variant of the centering that takes w / 2 for the y center as well.
CenterSquare(c, w, h) ==
  LET m2 == Median2(c)
  IN  [den  |-> <<2 * c.den[1], 2 * c.den[2], 2 * c.den[3]>>,
       rows |-> [i \in DOMAIN c.rows |->
                   <<2 * c.rows[i][1] - w * c.den[1],
                     2 * c.rows[i][2] - w * c.den[2],
                     2 * c.rows[i][3] - m2>>]]

\* builder.py:104-105.  verts -= [w / 2, h / 2, median(z)].
Center(c, w, h) ==
  LET m2 == Median2(c)
  IN  [den  |-> <<2 * c.den[1], 2 * c.den[2], 2 * c.den[3]>>,
       rows |-> [i \in DOMAIN c.rows |->
                   <<2 * c.rows[i][1] - w * c.den[1],
                     2 * c.rows[i][2] - h * c.den[2],
                     2 * c.rows[i][3] - m2>>]]

\* builder.py:107-108.  verts /= max(w, h) / 2.0.
Scale(c, w, h) ==
  LET m == IF w > h THEN w ELSE h
  IN  [den  |-> <<c.den[1] * m, c.den[2] * m, c.den[3] * m>>,
       rows |-> [i \in DOMAIN c.rows |->
                   <<2 * c.rows[i][1], 2 * c.rows[i][2], 2 * c.rows[i][3]>>]]

\* builder.py:111.  np.stack([xyz[:, 0] / w, xyz[:, 1] / h], axis=1).
TexCoords(c, w, h) ==
  [den  |-> <<c.den[1] * w, c.den[2] * h>>,
   rows |-> [i \in DOMAIN c.rows |-> <<c.rows[i][1], c.rows[i][2]>>]]

\* Variant of the V flip that is left out.
FlipVSkipped(uv) == uv

\* builder.py:112.  uv[:, 1] = 1.0 - uv[:, 1].
FlipV(uv) ==
  [uv EXCEPT !.rows =
     [i \in DOMAIN uv.rows |-> [uv.rows[i] EXCEPT ![2] = uv.den[2] - @]]]

\* ------------------------------------------------------------ text chunks
\* tts_server.py:155-174.  A text is a list of runs <<kind, length>>: "w" a
\* run of letters, "." one sentence terminator (. ! ?), " " one whitespace
\* character.  The empty list is the empty string.
XttsCharLimit == 250

Space == <<" ", 1>>

RECURSIVE StrLen(_)
StrLen(s) == IF s = <<>> THEN 0 ELSE s[1][2] + StrLen(Tail(s))

\* str.strip(): leading and trailing whitespace removed.
RECURSIVE LStrip(_)
LStrip(s) == IF s # <<>> /\ s[1][1] = " " THEN LStrip(Tail(s)) ELSE s

RECURSIVE RStrip(_)
RStrip(s) ==
  IF s # <<>> /\ s[Len(s)][1] = " " THEN RStrip(SubSeq(s, 1, Len(s) - 1)) ELSE s

strip(s) == RStrip(LStrip(s))

\* re.split(r'(?<=[.!?])\s+', text) from run i on: a stretch of whitespace
\* that follows a terminator ends the sentence `cur` and is dropped; `sep`
\* says that the run before i belongs to such a stretch.
RECURSIVE SplitFrom(_, _, _, _)
SplitFrom(text, i, cur, sep) ==
  IF i > Len(text) THEN <<cur>>
  ELSE IF text[i][1] = " " /\ sep
    THEN SplitFrom(text, i + 1, cur, TRUE)
  ELSE IF text[i][1] = " " /\ cur # <<>> /\ cur[Len(cur)][1] = "."
    THEN <<cur>> \o SplitFrom(text, i + 1, <<>>, TRUE)
  ELSE SplitFrom(text, i + 1, Append(cur, text[i]), FALSE)

\* tts_server.py:163-172.  The loop over the sentences and the final flush.
RECURSIVE ChunkLoop(_, _, _)
ChunkLoop(sentences, current_chunk, text_chunks) ==
  LET flushed == IF current_chunk # <<>>
                 THEN Append(text_chunks, strip(current_chunk))
                 ELSE text_chunks
  IN  IF sentences = <<>> THEN flushed
      ELSE LET sentence == Head(sentences)
           IN  IF StrLen(current_chunk) + StrLen(sentence) < XttsCharLimit
               THEN ChunkLoop(Tail(sentences),
                              current_chunk \o sentence \o <<Space>>, text_chunks)
               ELSE ChunkLoop(Tail(sentences), sentence \o <<Space>>, flushed)

\* tts_server.py:156-174.  text_chunks for a request text.
TextChunks(text) ==
  IF StrLen(text) > XttsCharLimit
  THEN ChunkLoop(SplitFrom(text, 1, <<>>, FALSE), <<>>, <<>>)
  ELSE <<text>>

\* ------------------------------------------------------------------ state
\* Two clients at most post to /api/generate; both servers run the same
\* handler body (unified_server.py:145-185, face_demo/server.py:35-77).
Requests == {1, 2}

Artifacts == {"avatar.obj", "features.json", "mesh.json"}

VARIABLES
  topo,     \* the four MediaPipe tables imported at builder.py:5-22
  photo,    \* per request: what the client uploads (bytes, and the
            \*   landmarks the provider finds in that image)
  pc,       \* per request: where its api_generate coroutine stands
  running,  \* the request whose coroutine holds the event loop, or 0
  upload,   \* GEN_DIR/upload.jpg: per byte, the request whose byte it is
  files,    \* GEN_DIR/avatar.obj, features.json, mesh.json
  build,    \* per request: the handler's local `build`
  resp,     \* per request: status code of the JSONResponse, 0 before
  wrote,    \* per request: the files it has created or rewritten
  src,      \* per request: the bytes build_mesh_from_photo read
  q,        \* point-in-polygon run: the query point
  poly,     \* point-in-polygon run: the polygon
  verdict,  \* point-in-polygon run: classification, as given and reversed
  img,      \* normalizer run: the image size [w, h] (builder.py:77)
  lm,       \* normalizer run: the rows <<x, y, z>> the provider returned
  heap,     \* normalizer run: the numpy arrays alive, by object
  names,    \* normalizer run: the object each local name is bound to
  npc,      \* normalizer run: position in build_mesh_from_photo
  voice_embeddings,  \* tts_server.py:48, per voice id: the clone that stored
                     \*   its embedding, 0 when the id is not a key
  tmpfiles, \* the files /tmp/voice_sample_<user>[_input].* that exist
  reply,    \* the last response of the TTS server and what led to it
  lifecycle,\* per voice id: its last clone or delete that was answered 200
  ops,      \* number of requests the TTS server has answered
  hreq,     \* generate_video: poll_seconds and timeout_seconds of the GenReq
  hpc,      \* generate_video: position of the handler
  helapsed, \* generate_video: seconds since `start` (heygen.py:104)
  hst,      \* generate_video: the status last polled
  hres      \* generate_video: how the request ended

vars == <<topo, photo, pc, running, upload, files, build, resp, wrote, src,
          q, poly, verdict, img, lm, heap, names, npc,
          voice_embeddings, tmpfiles, reply, lifecycle, ops,
          hreq, hpc, helapsed, hst, hres>>

pipeVars == <<topo, photo, pc, running, upload, files, build, resp, wrote, src>>

polyVars == <<q, poly, verdict>>

normVars == <<img, lm, heap, names, npc>>

voiceVars == <<voice_embeddings, tmpfiles, reply, lifecycle, ops>>

heygenVars == <<hreq, hpc, helapsed, hst, hres>>

\* ----------------------------------------------------------------- inputs
Pts == (0..Grid) \X (0..Grid)

LandmarkSets == [0..(NumLandmarks - 1) -> Pts]

\* A photo laid out on the grid row by row, and a photo without a face.
LatticeXY == [i \in 0..(NumLandmarks - 1) |->
                <<i % (Grid + 1), (i \div (Grid + 1)) % (Grid + 1)>>]

\* Tables of the shape MediaPipe ships: the face oval is a closed chain over
\* the boundary landmarks (here all landmarks but the last), each feature a
\* chain over landmarks of the face.
DefaultTopo ==
  [oval      |-> {<<i, (i + 1) % (NumLandmarks - 1)>> : i \in 0..(NumLandmarks - 2)},
   lips      |-> {<<NumLandmarks - 2, NumLandmarks - 1>>},
   left_eye  |-> {<<0, 1>>},
   right_eye |-> {<<1, 2>>}]

\* The scenario of a hexagonal face outline: landmarks 0..5 are the corners
\* of a hexagon, landmark 6 lies outside it, and the face oval is the chain
\* of the six corners.
HexagonXY ==
  [i \in 0..6 |-> <<<<1, 0>>, <<2, 0>>, <<3, 1>>, <<2, 2>>, <<1, 2>>, <<0, 1>>,
                    <<4, 2>>>>[i + 1]]

HexagonTopo ==
  [oval      |-> {<<i, (i + 1) % 6>> : i \in 0..5},
   lips      |-> {<<0, 1>>},
   left_eye  |-> {<<2, 3>>},
   right_eye |-> {<<4, 5>>}]

\* Tables over the indices 0..NumLandmarks, the last of which no landmark
\* array has: any set of at most MaxEdges pairs.
Pairs == {e \in (0..NumLandmarks) \X (0..NumLandmarks) : e[1] < e[2]}

Tables == {t \in SUBSET Pairs : Cardinality(t) <= MaxEdges}

NoPhoto == [xyz |-> None, nbytes |-> 0]

NoFile == [writer |-> 0, st |-> "absent"]

NoBuild == NoMesh("", <<>>)

\* One request, every landmark array on the grid, the tables as shipped.
InitPhotos ==
  /\ topo = DefaultTopo
  /\ \E xyz \in LandmarkSets \cup {None} :
       photo = [r \in Requests |-> IF r = 1 THEN [xyz |-> xyz, nbytes |-> 1]
                                   ELSE NoPhoto]
  /\ pc = [r \in Requests |-> IF r = 1 THEN "start" ELSE "none"]

\* One request, a fixed photo, one of the four tables varied.
InitTables ==
  /\ \E t \in Tables : \E name \in {"oval", "lips", "left_eye", "right_eye"} :
       topo = [DefaultTopo EXCEPT ![name] = t]
  /\ \E xyz \in {LatticeXY, None} :
       photo = [r \in Requests |-> IF r = 1 THEN [xyz |-> xyz, nbytes |-> 1]
                                   ELSE NoPhoto]
  /\ pc = [r \in Requests |-> IF r = 1 THEN "start" ELSE "none"]

\* One request, the hexagon scenario.
InitHexagon ==
  /\ topo = HexagonTopo
  /\ photo = [r \in Requests |-> IF r = 1 THEN [xyz |-> HexagonXY, nbytes |-> 1]
                                 ELSE NoPhoto]
  /\ pc = [r \in Requests |-> IF r = 1 THEN "start" ELSE "none"]

\* Two requests in flight together, photos of 1..MaxBytes bytes.
InitTwo ==
  /\ topo = DefaultTopo
  /\ photo \in [Requests -> [xyz : {LatticeXY, None}, nbytes : 1..MaxBytes]]
  /\ pc = [r \in Requests |-> "start"]

InitRest ==
  /\ running = 0
  /\ upload = <<>>
  /\ files = [f \in Artifacts |-> NoFile]
  /\ build = [r \in Requests |-> NoBuild]
  /\ resp = [r \in Requests |-> 0]
  /\ wrote = [r \in Requests |-> {}]
  /\ src = [r \in Requests |-> <<>>]

NoVerdict == [done |-> FALSE, given |-> FALSE, reversed |-> FALSE]

PolyIdle == q = <<0, 0>> /\ poly = <<>> /\ verdict = NoVerdict

\* The numpy arrays build_mesh_from_photo creates, as objects.
Arrays == {"xyz", "points2d", "verts", "uv", "mesh_vertices", "base_vertices"}

NoNames == [verts |-> "", base_vertices |-> ""]

NormIdle ==
  /\ img = [w |-> 1, h |-> 1]
  /\ lm = <<>>
  /\ heap = [a \in Arrays |-> NoArray]
  /\ names = NoNames
  /\ npc = "idle"

\* The clients of the TTS server and the voice ids voice_<user_id>, written
\* as the user id.
Users == {1, 2}

NoResponse == [op |-> "none", key |-> 0, status |-> 0, fed |-> <<>>,
               detail |-> "", before |-> [k \in Users |-> 0]]

VoiceInit ==
  /\ voice_embeddings = [k \in Users |-> 0]
  /\ tmpfiles = {}
  /\ reply = NoResponse
  /\ lifecycle = [k \in Users |-> "none"]
  /\ ops = 0

NoResult == [code |-> 0, why |-> ""]

HeyGenIdle ==
  /\ hreq = [poll_seconds |-> 0, timeout_seconds |-> 0]
  /\ hpc = "idle"
  /\ helapsed = 0
  /\ hst = "unpolled"
  /\ hres = NoResult

Init == (InitPhotos \/ InitTables \/ InitHexagon) /\ InitRest /\ PolyIdle /\ NormIdle /\ VoiceInit /\ HeyGenIdle

InitConc == InitTwo /\ InitRest /\ PolyIdle /\ NormIdle /\ VoiceInit /\ HeyGenIdle

\* ---------------------------------------------------------- api_generate
\* The `except Exception` clause (unified_server.py:184-185): a 500 response;
\* nothing that was written is removed.
Fail(r) ==
  /\ resp' = [resp EXCEPT ![r] = 500]
  /\ pc' = [pc EXCEPT ![r] = "done"]
  /\ running' = 0

\* unified_server.py:150.  open(upload_path, "wb") empties the file; the
\* coroutine then waits in `await photo.read()` and the loop is free.
OpenUpload(r) ==
  /\ pc[r] = "start" /\ running = 0
  /\ \E io \in {"ok", "raise"} :
       IF io = "ok"
       THEN /\ upload' = <<>>
            /\ wrote' = [wrote EXCEPT ![r] = @ \cup {"upload.jpg"}]
            /\ pc' = [pc EXCEPT ![r] = "await_read"]
            /\ UNCHANGED <<running, resp>>
       ELSE Fail(r) /\ UNCHANGED <<upload, wrote>>
  /\ UNCHANGED <<topo, photo, files, build, src, polyVars, normVars, voiceVars, heygenVars>>

\* What a file holds after `data` is written at offset 0 of a descriptor
\* opened earlier: bytes past the end of `data` stay.
Overlay(data, old) ==
  data \o SubSeq(old, Len(data) + 1, Len(old))

\* unified_server.py:151.  The read returns; the bytes are written and the
\* file closed.  From here to the response the handler awaits nothing.
WriteUpload(r) ==
  /\ pc[r] = "await_read" /\ running = 0
  /\ upload' = Overlay([k \in 1..photo[r].nbytes |-> r], upload)
  /\ pc' = [pc EXCEPT ![r] = "saved"]
  /\ running' = r
  /\ UNCHANGED <<topo, photo, files, build, resp, wrote, src, polyVars, normVars, voiceVars, heygenVars>>

\* builder.py:28-42.  PIL decodes the image that starts the file; the
\* provider's answer for it is the uploader's `xyz`.
Decode(bytes) == photo[bytes[1]].xyz

\* unified_server.py:153-158.
BuildMesh(r) ==
  /\ pc[r] = "saved" /\ running = r
  /\ src' = [src EXCEPT ![r] = upload]
  /\ \E res \in build_mesh_from_photo(Decode(upload), topo) :
       /\ build' = [build EXCEPT ![r] = res]
       /\ IF res.ok
          THEN pc' = [pc EXCEPT ![r] = "built"] /\ UNCHANGED <<running, resp>>
          ELSE Fail(r)
  /\ UNCHANGED <<topo, photo, upload, files, wrote, polyVars, normVars, voiceVars, heygenVars>>

\* One file written by the handler.  The write succeeds, or raises before
\* the file is touched, or raises with the file opened (hence emptied) and
\* not completed.
WriteFile(r, f, next) ==
  \E io \in {"ok", "raise", "partial"} :
    /\ files' = IF io = "raise" THEN files
                ELSE [files EXCEPT ![f] =
                        [writer |-> r, st |-> IF io = "ok" THEN "full" ELSE "partial"]]
    /\ wrote' = IF io = "raise" THEN wrote ELSE [wrote EXCEPT ![r] = @ \cup {f}]
    /\ IF io = "ok" THEN next ELSE Fail(r)

\* unified_server.py:160-161 and builder.py:146-150.
ExportObj(r) ==
  /\ pc[r] = "built" /\ running = r
  /\ WriteFile(r, "avatar.obj",
               pc' = [pc EXCEPT ![r] = "obj"] /\ UNCHANGED <<running, resp>>)
  /\ UNCHANGED <<topo, photo, upload, build, src, polyVars, normVars, voiceVars, heygenVars>>

\* unified_server.py:163-166.
WriteFeatures(r) ==
  /\ pc[r] = "obj" /\ running = r
  /\ WriteFile(r, "features.json",
               pc' = [pc EXCEPT ![r] = "features"] /\ UNCHANGED <<running, resp>>)
  /\ UNCHANGED <<topo, photo, upload, build, src, polyVars, normVars, voiceVars, heygenVars>>

\* unified_server.py:168-183.  mesh.json, then the 200 response.
WriteMesh(r) ==
  /\ pc[r] = "features" /\ running = r
  /\ WriteFile(r, "mesh.json",
               /\ pc' = [pc EXCEPT ![r] = "done"]
               /\ resp' = [resp EXCEPT ![r] = 200]
               /\ running' = 0)
  /\ UNCHANGED <<topo, photo, upload, build, src, polyVars, normVars, voiceVars, heygenVars>>

Next ==
  \E r \in Requests :
    \/ OpenUpload(r)
    \/ WriteUpload(r)
    \/ BuildMesh(r)
    \/ ExportObj(r)
    \/ WriteFeatures(r)
    \/ WriteMesh(r)

Spec == Init /\ [][Next]_vars

SpecConc == InitConc /\ [][Next]_vars

\* ------------------------------------------------- point-in-polygon runs
\* _inside_polygon on its own: any query point, any polygon of up to MaxPoly
\* points, classified with the polygon as given and with its points reversed.
PolyPts == ((0..PolyGrid) \cup {FarX}) \X (0..PolyGrid)

Polygons == UNION {[1..n -> PolyPts] : n \in 0..MaxPoly}

Reversed(s) == [p \in 1..Len(s) |-> s[Len(s) + 1 - p]]

InitPoly ==
  /\ q \in PolyPts
  /\ poly \in Polygons
  /\ verdict = NoVerdict
  /\ topo = DefaultTopo
  /\ photo = [r \in Requests |-> NoPhoto]
  /\ pc = [r \in Requests |-> "none"]
  /\ InitRest
  /\ NormIdle
  /\ VoiceInit
  /\ HeyGenIdle

Classify ==
  /\ ~verdict.done
  /\ verdict' = [done     |-> TRUE,
                 given    |-> _inside_polygon(q, poly),
                 reversed |-> _inside_polygon(q, Reversed(poly))]
  /\ UNCHANGED <<q, poly, pipeVars, normVars, voiceVars, heygenVars>>

SpecPoly == InitPoly /\ [][Classify]_vars

\* ------------------------------------------------------- normalizer runs
\* builder.py:82-143 without the triangulator and the filter: the arrays the
\* function creates and what each statement does to them.  An array is an
\* object of `heap`; a name bound by copy() is bound to a fresh object.
ImageSizes == [w : 1..MaxSide, h : 1..MaxSide]

\* Two landmarks anywhere on the grid, at depth 0.
FlatLandmarks ==
  {[i \in 1..2 |-> <<xy[i][1], xy[i][2], 0>>] :
     xy \in [1..2 -> (0..MaxSide) \X (0..MaxSide)]}

\* 1..MaxNormRows landmarks of any depth, laid out on a diagonal of the
\* image: corner, opposite corner, (integer) middle, corner, ...
DeepLandmarks(w, h) ==
  LET xy(i) == IF i % 3 = 1 THEN <<0, 0>>
               ELSE IF i % 3 = 2 THEN <<w, h>>
               ELSE <<w \div 2, h \div 2>>
  IN  UNION {{[i \in 1..n |-> <<xy(i)[1], xy(i)[2], z[i]>>] :
                z \in [1..n -> 0..MaxDepth]} : n \in 1..MaxNormRows}

InitNorm ==
  /\ img \in ImageSizes
  /\ lm \in FlatLandmarks \cup DeepLandmarks(img.w, img.h)
  /\ heap = [a \in Arrays |-> IF a = "xyz" THEN RawCell(lm) ELSE NoArray]
  /\ names = NoNames
  /\ npc = "detected"
  /\ topo = DefaultTopo
  /\ photo = [r \in Requests |-> NoPhoto]
  /\ pc = [r \in Requests |-> "none"]
  /\ InitRest
  /\ PolyIdle
  /\ VoiceInit
  /\ HeyGenIdle

\* builder.py:82.
SlicePoints ==
  /\ npc = "detected"
  /\ heap' = [heap EXCEPT !["points2d"] = Points2d(heap["xyz"])]
  /\ npc' = "sliced"
  /\ UNCHANGED <<img, lm, names, pipeVars, polyVars, voiceVars, heygenVars>>

\* builder.py:100.  verts = xyz.copy().
CopyVerts ==
  /\ npc = "sliced"
  /\ LET o == copy("xyz", "verts")
     IN  /\ names' = [names EXCEPT !.verts = o]
         /\ heap' = [heap EXCEPT ![o] = heap["xyz"]]
  /\ npc' = "copied"
  /\ UNCHANGED <<img, lm, pipeVars, polyVars, voiceVars, heygenVars>>

\* builder.py:102.
FlipY ==
  /\ npc = "copied"
  /\ heap' = [heap EXCEPT ![names.verts] = Flip(@, img.h)]
  /\ npc' = "flipped"
  /\ UNCHANGED <<img, lm, names, pipeVars, polyVars, voiceVars, heygenVars>>

\* builder.py:104-105.
CenterVerts ==
  /\ npc = "flipped"
  /\ heap' = [heap EXCEPT ![names.verts] = Center(@, img.w, img.h)]
  /\ npc' = "centered"
  /\ UNCHANGED <<img, lm, names, pipeVars, polyVars, voiceVars, heygenVars>>

\* builder.py:107-108.
ScaleVerts ==
  /\ npc = "centered"
  /\ heap' = [heap EXCEPT ![names.verts] = Scale(@, img.w, img.h)]
  /\ npc' = "scaled"
  /\ UNCHANGED <<img, lm, names, pipeVars, polyVars, voiceVars, heygenVars>>

\* builder.py:111-112.  The UVs are read from `xyz`.
MakeUV ==
  /\ npc = "scaled"
  /\ heap' = [heap EXCEPT !["uv"] = FlipV(TexCoords(heap["xyz"], img.w, img.h))]
  /\ npc' = "uv"
  /\ UNCHANGED <<img, lm, names, pipeVars, polyVars, voiceVars, heygenVars>>

\* builder.py:125-143.  trimesh.Trimesh converts the float32 `verts` to its
\* own float64 array; base_vertices is verts.copy().
Assemble ==
  /\ npc = "uv"
  /\ LET o == copy(names.verts, "base_vertices")
     IN  /\ names' = [names EXCEPT !.base_vertices = o]
         /\ heap' = [heap EXCEPT !["mesh_vertices"] = heap[names.verts],
                                 ![o] = heap[names.verts]]
  /\ npc' = "returned"
  /\ UNCHANGED <<img, lm, pipeVars, polyVars, voiceVars, heygenVars>>

\* A user of the result animates the baseline in place: one coordinate of one
\* vertex of result["base_vertices"] is moved by one unit.
Animate ==
  /\ npc = "returned"
  /\ \E i \in DOMAIN lm : \E c \in 1..3 :
       heap' = [heap EXCEPT ![names.base_vertices].rows[i][c] =
                                @ + heap[names.base_vertices].den[c]]
  /\ npc' = "animated"
  /\ UNCHANGED <<img, lm, names, pipeVars, polyVars, voiceVars, heygenVars>>

NextNorm ==
  \/ SlicePoints
  \/ CopyVerts
  \/ FlipY
  \/ CenterVerts
  \/ ScaleVerts
  \/ MakeUV
  \/ Assemble
  \/ Animate

SpecNorm == InitNorm /\ [][NextNorm]_vars

\* ------------------------------------------------------------ TTS server
\* tts_server.py.  Every handler runs to its response without yielding once
\* its request is read, so a request is one step.
Runs == {<<"w", LongRun>>, <<".", 1>>, Space}

Texts == UNION {[1..n -> Runs] : n \in 0..MaxRuns}

RespondWith(op, key, status, fed, detail) ==
  /\ reply' = [op |-> op, key |-> key, status |-> status, fed |-> fed,
               detail |-> detail, before |-> voice_embeddings]
  /\ ops' = ops + 1

Respond(op, key, status, fed) == RespondWith(op, key, status, fed, "")

\* tts_server.py:134-135 (unified_server.py:307-312).  `except Exception`
\* around the body of clone_voice: whatever was raised inside, an
\* HTTPException with its own status included, leaves as a 500 whose detail
\* is the text of what was caught.
ExceptException(status) == 500

\* tts_server.py:71-135.  The sample is written to temp_input and converted
\* by ffmpeg; the `finally` of line 109 removes temp_input whether ffmpeg
\* failed (HTTPException 400 raised at line 105, inside the outer `try`) or
\* not.  Then the embedding is computed (on failure the converted file
\* stays), stored, and temp_output removed.
clone_voice(user_id) ==
  /\ ops < MaxOps
  /\ \E outcome \in {"ffmpeg_fails", "latents_fail", "remove_fails", "ok"} :
       /\ LET written   == tmpfiles \cup {<<"input", user_id>>}
              converted == written \ {<<"input", user_id>>}
          IN  tmpfiles' = IF outcome \in {"latents_fail", "remove_fails"}
                          THEN converted \cup {<<"output", user_id>>}
                          ELSE converted \ {<<"output", user_id>>}
       /\ voice_embeddings' =
            IF outcome \in {"remove_fails", "ok"}
            THEN [voice_embeddings EXCEPT ![user_id] = ops + 1]
            ELSE voice_embeddings
       /\ lifecycle' = IF outcome = "ok"
                       THEN [lifecycle EXCEPT ![user_id] = "clone"]
                       ELSE lifecycle
       /\ RespondWith("clone", user_id,
                       IF outcome = "ok" THEN 200
                       ELSE IF outcome = "ffmpeg_fails" THEN ExceptException(400)
                       ELSE ExceptException(500),
                       <<>>,
                       IF outcome = "ok" THEN "success"
                       ELSE IF outcome = "ffmpeg_fails"
                         THEN "Audio conversion failed"
                       ELSE "error")
  /\ UNCHANGED <<pipeVars, polyVars, normVars, heygenVars>>

\* tts_server.py:138-232.  404 for an unknown voice id; else the text is cut
\* into chunks and each chunk is passed to the model's inference call, which
\* may raise (500).  `fed` lists the lengths of the chunks passed.
synthesize_speech(voice_id, text) ==
  /\ ops < MaxOps
  /\ IF voice_embeddings[voice_id] = 0
     THEN Respond("synthesize", voice_id, 404, <<>>)
     ELSE LET text_chunks == TextChunks(text)
              lens == [i \in DOMAIN text_chunks |-> StrLen(text_chunks[i])]
          IN  \E done \in 1..Len(text_chunks) : \E raised \in BOOLEAN :
                /\ raised \/ done = Len(text_chunks)
                /\ Respond("synthesize", voice_id,
                           IF raised THEN 500 ELSE 200, SubSeq(lens, 1, done))
  /\ UNCHANGED <<voice_embeddings, tmpfiles, lifecycle>>
  /\ UNCHANGED <<pipeVars, polyVars, normVars, heygenVars>>

\* tts_server.py:61-68.
health_check ==
  /\ ops < MaxOps
  /\ Respond("health", 0, 200, <<>>)
  /\ UNCHANGED <<voice_embeddings, tmpfiles, lifecycle>>
  /\ UNCHANGED <<pipeVars, polyVars, normVars, heygenVars>>

\* tts_server.py:235-241.
delete_voice(voice_id) ==
  /\ ops < MaxOps
  /\ IF voice_embeddings[voice_id] # 0
     THEN /\ voice_embeddings' = [voice_embeddings EXCEPT ![voice_id] = 0]
          /\ lifecycle' = [lifecycle EXCEPT ![voice_id] = "delete"]
          /\ Respond("delete", voice_id, 200, <<>>)
     ELSE /\ UNCHANGED <<voice_embeddings, lifecycle>>
          /\ Respond("delete", voice_id, 404, <<>>)
  /\ UNCHANGED tmpfiles
  /\ UNCHANGED <<pipeVars, polyVars, normVars, heygenVars>>

NextVoice ==
  \/ \E u \in Users : clone_voice(u)
  \/ \E k \in Users : \E text \in Texts : synthesize_speech(k, text)
  \/ health_check
  \/ \E k \in Users : delete_voice(k)

InitVoice ==
  /\ VoiceInit
  /\ topo = DefaultTopo
  /\ photo = [r \in Requests |-> NoPhoto]
  /\ pc = [r \in Requests |-> "none"]
  /\ InitRest
  /\ PolyIdle
  /\ NormIdle
  /\ HeyGenIdle

SpecVoice == InitVoice /\ [][NextVoice]_vars

\* ---------------------------------------------------------------- HeyGen
\* heygen.py:33-42.  The two fields of GenReq the polling loop reads.  Both
\* are declared `int` with no constraint, so a body may carry zero or a
\* negative number.
GenReq == [poll_seconds    : -1 .. MaxPollSeconds,
           timeout_seconds : -1 .. MaxTimeoutSeconds]

\* heygen.py:111.  What data.get("status") can be; "None" is a reply with
\* no status in it.
Statuses == {"pending", "processing", "completed", "failed", "None"}

\* heygen.py:127.  time.sleep(secs) raises ValueError for a negative
\* length and otherwise lets secs seconds pass.
SleepRaises(secs) == secs < 0

\* heygen.py:125.
TimedOut(elapsed, req) == elapsed > req.timeout_seconds

Finish(code, why) ==
  /\ hres' = [code |-> code, why |-> why]
  /\ hpc' = "done"

\* heygen.py:98-104.  The create request: _req raises (requests error or
\* raise_for_status, an unhandled 500), HeyGen answers with an error (400),
\* or a video_id comes back and the clock of the polling loop starts.
CreateVideo ==
  /\ hpc = "create"
  /\ \E outcome \in {"raises", "error", "ok"} :
       /\ IF outcome = "raises" THEN Finish(500, "create raised")
          ELSE IF outcome = "error" THEN Finish(400, "create error")
          ELSE hpc' = "poll" /\ hres' = hres
       /\ UNCHANGED <<hreq, helapsed, hst>>
  /\ UNCHANGED <<pipeVars, polyVars, normVars, voiceVars>>

\* heygen.py:107-127.  One turn of `while True`: the status request takes
\* d seconds and raises or answers st; "completed" returns the video,
\* "failed" raises 400, then the time test raises 504, then the sleep (a
\* ValueError leaves the handler as an unhandled 500).
PollOnce ==
  /\ hpc = "poll"
  /\ \E d \in 0 .. MaxLatency, st \in Statuses \cup {"raises"} :
       LET now == helapsed + d
       IN  IF st = "raises"
           THEN /\ Finish(500, "status raised")
                /\ helapsed' = now
                /\ hst' = hst
           ELSE /\ hst' = st
                /\ IF st = "completed"
                   THEN Finish(200, "completed") /\ helapsed' = now
                   ELSE IF st = "failed"
                   THEN Finish(400, "failed") /\ helapsed' = now
                   ELSE IF TimedOut(now, hreq)
                   THEN Finish(504, "timeout") /\ helapsed' = now
                   ELSE IF SleepRaises(hreq.poll_seconds)
                   THEN Finish(500, "ValueError") /\ helapsed' = now
                   ELSE /\ helapsed' = now + hreq.poll_seconds
                        /\ UNCHANGED <<hpc, hres>>
  /\ hreq' = hreq
  /\ UNCHANGED <<pipeVars, polyVars, normVars, voiceVars>>

NextHeyGen == CreateVideo \/ PollOnce

InitHeyGen ==
  /\ topo = DefaultTopo
  /\ photo = [r \in Requests |-> NoPhoto]
  /\ pc = [r \in Requests |-> "none"]
  /\ InitRest
  /\ PolyIdle
  /\ NormIdle
  /\ VoiceInit
  /\ hreq \in GenReq
  /\ hpc = "create"
  /\ helapsed = 0
  /\ hst = "unpolled"
  /\ hres = NoResult

SpecHeyGen == InitHeyGen /\ [][NextHeyGen]_vars

\* ----------------------------------------------------------------- claims
\* What the provider returned to request r, once its build has run.
Built(r) == src[r] # <<>>

Detected(r) == Decode(src[r])

Endpoints(table) == {e[1] : e \in table} \cup {e[2] : e \in table}

\* The sum of column c of a list of rows.
RECURSIVE ColSum(_, _)
ColSum(rows, c) ==
  IF rows = <<>> THEN 0 ELSE rows[1][c] + ColSum(Tail(rows), c)

\* C1.  The faces a build returns are rows of the raw triangulation, in the
\* order they have there, each at most once: the filter only removes rows.
C1_FacesSubsetOfRaw ==
  \A r \in Requests :
    build[r].ok =>
      LET faces == build[r].faces
          raw   == build[r].raw
      IN  \E at \in [DOMAIN faces -> DOMAIN raw] :
            /\ \A p \in DOMAIN faces : faces[p] = raw[at[p]]
            /\ \A p, p2 \in DOMAIN faces : p < p2 => at[p] < at[p2]

\* A build whose filter kept some rows and removed others.
C1_Witness ==
  \E r \in Requests :
    /\ build[r].ok
    /\ 0 < Len(build[r].faces)
    /\ Len(build[r].faces) < Len(build[r].raw)

\* C2.  When the provider returns None the build raises the no-face error
\* having run no step after detection, the request is answered 500 (or is
\* about to be), and the request writes none of the three artifacts.
C2_NoFaceStopsPipeline ==
  \A r \in Requests :
    (Built(r) /\ Detected(r) = None) =>
      /\ ~build[r].ok
      /\ build[r].error = "NoFaceDetected"
      /\ build[r].steps = <<"load", "detect">>
      /\ resp[r] = 500
      /\ wrote[r] \cap Artifacts = {}

\* A request whose photo shows no face has been answered.
C2_Witness ==
  \E r \in Requests : Built(r) /\ Detected(r) = None /\ pc[r] = "done"

\* C3.  A request that ends in failure has written none of its artifacts,
\* and one that ends in success has written all three completely.
C3_NoPartialExport ==
  \A r \in Requests :
    /\ resp[r] = 500 => wrote[r] \cap Artifacts = {}
    /\ resp[r] = 200 =>
          \A f \in Artifacts : f \in wrote[r]

\* C4.  Two requests share nothing: the bytes a request's build reads are
\* exactly the bytes that request uploaded, and the artifacts a request was
\* answered with stay the ones it wrote.
C4_RequestsIsolated ==
  \A r \in Requests :
    /\ Built(r) => src[r] = [k \in 1..photo[r].nbytes |-> r]
    /\ resp[r] = 200 =>
          \A f \in Artifacts : files[f] = [writer |-> r, st |-> "full"]

C6_DegenerateBoundaryAborts ==
  \A r \in Requests :
    build[r].ok => Cardinality(Range(build[r].oval_xy_sorted)) >= 3

\* C7.  A build whose filter removes every triangle fails: a returned mesh
\* has at least one face.  Stated for boundaries of 3 or more distinct
\* points, the case C6 does not cover.
C7_EmptyTriangulationFails ==
  \A r \in Requests :
    (build[r].ok /\ Cardinality(Range(build[r].oval_xy_sorted)) >= 3) =>
      build[r].faces # <<>>

\* C8.  The classification of a point is the same for a polygon and for
\* the polygon with its points in reverse order.
C8_ReversalInvariant == verdict.done => verdict.given = verdict.reversed

\* C9.  The boundary polygon of a build has one point per distinct index
\* the oval table names: as many points as distinct indices, and every
\* position occurs in the polygon as often as indices lie on it.
C9_PolygonPointPerIndex ==
  \A r \in Requests :
    build[r].ok =>
      LET U    == Endpoints(topo.oval)
          polygon == build[r].oval_xy_sorted
          xyz  == Detected(r)
      IN  /\ Len(polygon) = Cardinality(U)
          /\ \A i \in U :
               Cardinality({p \in DOMAIN polygon : polygon[p] = xyz[i]})
                 = Cardinality({j \in U : xyz[j] = xyz[i]})

\* A polygon built from a table in which edges share an index.
C9_Witness ==
  \E r \in Requests :
    /\ build[r].ok
    /\ Cardinality(Endpoints(topo.oval)) < 2 * Cardinality(topo.oval)
    /\ Len(build[r].oval_xy_sorted) >= 3

\* C10.  Each feature list of a build is strictly ascending and holds
\* exactly the endpoints of the edges of its table.
C10_FeatureListSortedUnique ==
  \A r \in Requests :
    build[r].ok =>
      \A name \in {"lips", "left_eye", "right_eye"} :
        LET list == build[r].feature_indices[name]
        IN  /\ \A p \in 1..(Len(list) - 1) : list[p] < list[p + 1]
            /\ Range(list) = Endpoints(topo[name])

\* A feature list from a table whose two edges share an endpoint, as in
\* endpoints {10,12,14,10,12} giving [10,12,14].
C10_Witness ==
  \E r \in Requests :
    /\ build[r].ok
    /\ Cardinality(topo.lips) = 2
    /\ Len(build[r].feature_indices.lips) = 3

\* The list s with the elements at positions i and j exchanged.
Swapped(s, i, j) ==
  [p \in DOMAIN s |-> IF p = i THEN s[j] ELSE IF p = j THEN s[i] ELSE s[p]]

\* C12, C15 and C18 look at a mesh where the build has just returned it
\* (pc = "built"); the handler does not change `build` afterwards.

LeftOf(k, a, b, pt) ==
  (b[1] - a[1]) * (pt[2] - k * a[2]) - (b[2] - a[2]) * (pt[1] - k * a[1])

\* The polygon is strictly convex and counter-clockwise.
StrictlyConvex(polygon) ==
  LET n == Len(polygon)
      nx(i) == (i % n) + 1
  IN  /\ n >= 3
      /\ \A i \in 1..n : LeftOf(1, polygon[i], polygon[nx(i)], polygon[nx(nx(i))]) > 0

\* C15.  A row of the triangulation is kept exactly when the mean of its
\* three vertices' raw (x, y) is classified inside the boundary polygon.
\* For a strictly convex boundary (a hexagon of six landmarks, say) a triangle
\* with its three vertices in or on the boundary is kept and a triangle whose
\* centroid is strictly outside the boundary is dropped.
C15_KeptIffCentroidInside ==
  \A r \in Requests :
    (build[r].ok /\ pc[r] = "built") =>
      LET xyz     == Detected(r)
          raw     == build[r].raw
          polygon == build[r].oval_xy_sorted
          n       == Len(polygon)
          kept    == Range(build[r].faces)
          sum(t)  == <<xyz[t[1]][1] + xyz[t[2]][1] + xyz[t[3]][1],
                       xyz[t[1]][2] + xyz[t[2]][2] + xyz[t[3]][2]>>
          within(k, pt) ==
            \A i \in 1..n : LeftOf(k, polygon[i], polygon[(i % n) + 1], pt) >= 0
          outside(k, pt) ==
            \E i \in 1..n : LeftOf(k, polygon[i], polygon[(i % n) + 1], pt) < 0
      IN  /\ \A p \in DOMAIN raw :
               raw[p] \in kept <=> InsideScaled(3, sum(raw[p]), polygon)
          /\ StrictlyConvex(polygon) =>
               \A p \in DOMAIN raw :
                 /\ (\A c \in 1..3 : within(1, xyz[raw[p][c]])) => raw[p] \in kept
                 /\ outside(3, sum(raw[p])) => raw[p] \notin kept

\* The hexagon scenario: a boundary of six points, four or more triangles
\* kept, a triangle dropped.
C15_Witness ==
  \E r \in Requests :
    /\ build[r].ok
    /\ Len(build[r].oval_xy_sorted) = 6
    /\ StrictlyConvex(build[r].oval_xy_sorted)
    /\ Len(build[r].faces) >= 4
    /\ Len(build[r].faces) < Len(build[r].raw)

\* C18.  The points of the boundary polygon are in ascending order of polar
\* angle around the mean of the positions of the unique boundary vertices:
\* no point has a greater angle than the next one.  The polygon is ordered
\* from the index list alone, and every table that names the same vertices
\* gives that same index list: the edges decide membership only.
C18_PolygonSortedByAngle ==
  \A r \in Requests :
    (build[r].ok /\ pc[r] = "built") =>
      LET xyz     == Detected(r)
          polygon == build[r].oval_xy_sorted
          U       == Endpoints(topo.oval)
          n       == Cardinality(U)
          cx      == ColSum([p \in 1..n |-> xyz[sorted(U)[p]]], 1)
          cy      == ColSum([p \in 1..n |-> xyz[sorted(U)[p]]], 2)
          dir(p)  == <<n * polygon[p][1] - cx, n * polygon[p][2] - cy>>
      IN  /\ \A p \in 1..(Len(polygon) - 1) : ~AngleLess(dir(p + 1), dir(p))
          /\ polygon = SortByAngle([p \in DOMAIN build[r].oval_indices |->
                                      xyz[build[r].oval_indices[p]]])
          /\ \A t \in SUBSET {e \in U \X U : e[1] < e[2]} :
               Endpoints(t) = U =>
                 _polygon_from_connections(t) = build[r].oval_indices

\* A polygon of three or more points whose order by angle is not the order
\* of their indices, built from a table that another table with the same
\* vertices and other edges could replace.
C18_Witness ==
  \E r \in Requests :
    /\ build[r].ok
    /\ Len(build[r].oval_xy_sorted) >= 3
    /\ build[r].oval_xy_sorted #
         [p \in DOMAIN build[r].oval_indices |->
            Detected(r)[build[r].oval_indices[p]]]
    /\ \E t \in Tables : t # topo.oval /\ Endpoints(t) = Endpoints(topo.oval)

\* The edge from p1 to p2 straddles the horizontal line through pt and meets
\* it at an x strictly greater than that of pt (the meeting point is
\* x1 + (x2 - x1) * (y - y1) / (y2 - y1)).
CrossesRightOf(pt, p1, p2) ==
  LET dy  == p2[2] - p1[2]
      lhs == (pt[1] - p1[1]) * dy
      rhs == (p2[1] - p1[1]) * (pt[2] - p1[2])
  IN  /\ (p1[2] > pt[2]) # (p2[2] > pt[2])
      /\ IF dy > 0 THEN lhs < rhs ELSE lhs > rhs

\* C19.  _inside_polygon returns true exactly when an odd number of edges,
\* the closing edge included, straddle the point's y and meet the horizontal
\* line through the point at an x strictly greater than the point's.
C19_OddCrossings ==
  verdict.done =>
    LET n == Len(poly)
    IN  verdict.given =
          (Cardinality({i \in 1..n :
             CrossesRightOf(q, poly[i], poly[(i % n) + 1])}) % 2 = 1)

\* ------------------------------------------- claims on the normalizer runs
\* Landmark i lies within the image.
InImage(i) ==
  /\ 0 <= lm[i][1] /\ lm[i][1] <= img.w
  /\ 0 <= lm[i][2] /\ lm[i][2] <= img.h

UVMade == npc \in {"uv", "returned", "animated"}

VertsScaled == npc \in {"scaled", "uv", "returned", "animated"}

\* C11.  For every landmark within the image, u = x / W and v = 1 - y / H,
\* both in [0, 1]; v comes from the raw pixel y whatever the normalizer did
\* to its own array.  (u = a / b is written a = u * b.)
C11_UVInUnitSquare ==
  UVMade =>
    /\ Len(heap["uv"].rows) = Len(lm)
    /\ \A i \in DOMAIN lm :
         InImage(i) =>
           LET u  == heap["uv"].rows[i][1]
               v  == heap["uv"].rows[i][2]
               ud == heap["uv"].den[1]
               vd == heap["uv"].den[2]
           IN  /\ ud > 0 /\ vd > 0
               /\ u * img.w = lm[i][1] * ud
               /\ v * img.h = (img.h - lm[i][2]) * vd
               /\ 0 <= u /\ u <= ud
               /\ 0 <= v /\ v <= vd

\* UVs made for a landmark within the image that is off the horizontal
\* middle line, so that v and 1 - v differ.
C11_Witness ==
  /\ npc = "uv"
  /\ \E i \in DOMAIN lm : InImage(i) /\ 2 * lm[i][2] # img.h /\ lm[i][1] > 0

\* Twice the median of the landmark z values, from the definition of a
\* median: the sum of the largest value that at least half (rounded up, plus
\* one for an even count) of the values reach and the smallest value that as
\* many values stay under.
MedianZ2 ==
  LET n    == Len(lm)
      Z    == {lm[i][3] : i \in 1..n}
      need == (n \div 2) + 1
      atLeast(v) == Cardinality({j \in 1..n : lm[j][3] >= v})
      atMost(v)  == Cardinality({j \in 1..n : lm[j][3] <= v})
      lo == CHOOSE v \in Z : /\ atLeast(v) >= need
                             /\ \A u \in Z : atLeast(u) >= need => u <= v
      hi == CHOOSE v \in Z : /\ atMost(v) >= need
                             /\ \A u \in Z : atMost(u) >= need => u >= v
  IN  lo + hi

MaxWH == IF img.w > img.h THEN img.w ELSE img.h

\* C13.  The normalized vertex of landmark (x, y, z) is
\* ((x - W/2)/s, ((H - y) - H/2)/s, (z - m)/s), s = max(W, H)/2, m the median
\* of the z values; the array is flipped first, then translated, then scaled,
\* and it keeps the count and the indexing of the landmarks.
C13_NormalizedVertexFormula ==
  LET V == heap[names.verts]
      n == Len(lm)
  IN  /\ npc = "flipped" =>
           /\ Len(V.rows) = n
           /\ \A i \in 1..n :
                /\ V.rows[i][1] = lm[i][1] * V.den[1]
                /\ V.rows[i][2] = (img.h - lm[i][2]) * V.den[2]
                /\ V.rows[i][3] = lm[i][3] * V.den[3]
      /\ npc = "centered" =>
           /\ Len(V.rows) = n
           /\ \A i \in 1..n :
                /\ 2 * V.rows[i][1] = (2 * lm[i][1] - img.w) * V.den[1]
                /\ 2 * V.rows[i][2] = (2 * (img.h - lm[i][2]) - img.h) * V.den[2]
                /\ 2 * V.rows[i][3] = (2 * lm[i][3] - MedianZ2) * V.den[3]
      /\ VertsScaled =>
           /\ Len(V.rows) = n
           /\ \A c \in 1..3 : V.den[c] > 0
           /\ \A i \in 1..n :
                /\ MaxWH * V.rows[i][1] = (2 * lm[i][1] - img.w) * V.den[1]
                /\ MaxWH * V.rows[i][2] = (2 * (img.h - lm[i][2]) - img.h) * V.den[2]
                /\ MaxWH * V.rows[i][3] = (2 * lm[i][3] - MedianZ2) * V.den[3]

\* A scaled array of two landmarks of different depth (the median lies
\* between them) in an image that is not square.
C13_Witness ==
  /\ npc = "scaled"
  /\ Len(lm) = 2
  /\ lm[1][3] # lm[2][3]
  /\ img.w # img.h

\* The landmarks are placed symmetrically around (W/2, H/2): every position
\* is taken as often as its mirror image.
Symmetric ==
  \A i \in DOMAIN lm :
    Cardinality({j \in DOMAIN lm : lm[j][1] = lm[i][1] /\ lm[j][2] = lm[i][2]})
      = Cardinality({j \in DOMAIN lm : /\ lm[j][1] = img.w - lm[i][1]
                                       /\ lm[j][2] = img.h - lm[i][2]})

\* C14, as claimed.  The mean of the normalized vertices of a symmetric
\* landmark set is zero in all three coordinates.
C14_SymmetricMeanZero ==
  (VertsScaled /\ Symmetric) =>
    \A c \in 1..3 : ColSum(heap[names.verts].rows, c) = 0

\* C14, amended.  The mean of the normalized vertices of a symmetric landmark
\* set is zero in x and in y, and it is zero in z exactly when the mean of
\* the landmark z values equals their median.
C14_SymmetricMeanZeroXY ==
  (VertsScaled /\ Symmetric) =>
    /\ ColSum(heap[names.verts].rows, 1) = 0
    /\ ColSum(heap[names.verts].rows, 2) = 0
    /\ (ColSum(heap[names.verts].rows, 3) = 0
          <=> 2 * ColSum(lm, 3) = Len(lm) * MedianZ2)

\* A symmetric set of three landmarks on three different positions whose
\* mean depth is not its median depth.
C14_Witness ==
  /\ npc = "scaled"
  /\ Symmetric
  /\ Len(lm) = 3
  /\ lm[1][1] # lm[2][1]
  /\ 2 * ColSum(lm, 3) # Len(lm) * MedianZ2

\* C16.  No step changes the landmark array: points2d holds the raw x and y,
\* verts and base_vertices are objects of their own, the UVs are those of the
\* raw coordinates, and after base_vertices was changed in place the landmark
\* array and the mesh's vertices are what they were.
C16_LandmarksNeverModified ==
  LET raw == RawCell(lm)
      normalized == Scale(Center(Flip(raw, img.h), img.w, img.h), img.w, img.h)
  IN  /\ heap["xyz"] = raw
      /\ npc # "detected" => heap["points2d"] = Points2d(raw)
      /\ npc \notin {"detected", "sliced"} => names.verts # "xyz"
      /\ UVMade => heap["uv"] = FlipV(TexCoords(raw, img.w, img.h))
      /\ npc \in {"returned", "animated"} =>
           /\ names.base_vertices \notin {"xyz", names.verts, "mesh_vertices"}
           /\ heap["mesh_vertices"] = normalized
           /\ heap[names.verts] = normalized
      /\ npc = "returned" => heap[names.base_vertices] = normalized

\* The baseline returned for a landmark off the image middle was changed.
C16_Witness ==
  /\ npc = "animated"
  /\ heap[names.base_vertices] # heap[names.verts]
  /\ \E i \in DOMAIN lm : 2 * lm[i][2] # img.h

\* ------------------------------------------------ claims on the TTS server
\* C17.  The store follows insert-on-clone, delete-on-request: a voice id is
\* a key exactly when its last clone or delete that succeeded was a clone;
\* synthesize, health and every request answered with an error leave the
\* store as it was; delete and synthesize of an id that is not a key are
\* answered 404.
C17_StoreLifecycle ==
  /\ \A k \in Users : voice_embeddings[k] # 0 <=> lifecycle[k] = "clone"
  /\ (reply.op \in {"synthesize", "health"} \/ reply.status >= 400) =>
        voice_embeddings = reply.before
  /\ (reply.op \in {"synthesize", "delete"} /\ reply.before[reply.key] = 0) =>
        reply.status = 404

\* C20.  Every chunk of text passed to the model's inference call has at most
\* 250 characters.
C20_ChunksWithinLimit ==
  \A i \in DOMAIN reply.fed : reply.fed[i] <= XttsCharLimit

\* C21.  When the ffmpeg conversion fails in clone_voice the caller gets the
\* 400 'Audio conversion failed' error, the temporary input file is gone and
\* the store is what it was before the request.
C21_ConversionFailureIs400 ==
  (reply.op = "clone" /\ reply.detail = "Audio conversion failed") =>
    /\ reply.status = 400
    /\ <<"input", reply.key>> \notin tmpfiles
    /\ voice_embeddings = reply.before

\* ------------------------------------------- claims on the HeyGen handler
\* The status requests of the run all returned and the polling loop ran.
LoopEnded ==
  /\ hpc = "done"
  /\ hres.why \notin {"create raised", "create error", "status raised"}

\* C22.  The polling loop of generate_video ends only in one of three ways:
\* with the video when the status polled is 'completed', with a 400 when it
\* is 'failed', and otherwise with a 504 at a poll made after more than
\* timeout_seconds; and while it goes on, no status polled so far was
\* 'completed' or 'failed' and the time had not run out at the last poll.
C22_LoopEndsCompletedFailedOrTimeout ==
  /\ LoopEnded =>
       \/ hres.code = 200 /\ hst = "completed"
       \/ hres.code = 400 /\ hst = "failed"
       \/ /\ hres.code = 504
          /\ hst \notin {"completed", "failed"}
          /\ TimedOut(helapsed, hreq)
  /\ (hpc = "poll" /\ hst # "unpolled") =>
       /\ hst \notin {"completed", "failed"}
       /\ ~TimedOut(helapsed - hreq.poll_seconds, hreq)

====
